---- MODULE Spec2Model ----
(***************************************************************************)
(* State-machine model of the snake game in src/src/main.rs: the systems   *)
(* of the rollback stage (update_dir, move_snake, check_collisions,        *)
(* add_segment, game_over), the GGRS input system (input), the periodic    *)
(* food spawner (spawn_food) and the setup system.                         *)
(*                                                                         *)
(* Coordinates are the Transform translations of the code, in pixels;      *)
(* every value the code produces is an odd multiple of BOX_SIZE / 2, which *)
(* f32 represents exactly, so integers model them without loss.            *)
(***************************************************************************)
EXTENDS Integers, Sequences, FiniteSets, TLC

\* ------------------------------------------------------------ constants
HEIGHT_BOXES == 20
WIDTH_BOXES == 10
BOX_SIZE == 26

\* ------------------------------------------------------------ bounds
\* Ticks of the rollback stage simulated from setup.
MaxTick == 3
\* Keyboard events that arrive between two ticks.
MaxKeys == 1
\* Runs of the food spawner.
MaxFood == 2
\* Ticks simulated by the two-run specifications.
PairTick == 2
\* Keyboard events per frame in the two-run specifications.
PairKeys == 2
\* Frames a peer may run ahead of the last frame it has confirmed.
Window == 1
\* Frames each of the two peers runs.
PeerFrames == 1
\* Longest snake the coiled-snake specification starts from.
CoilLen == 5
\* Cells the snake of the crowded-field specification leaves uncovered.
FreeCells == 5

\* ------------------------------------------------------------ vocabulary
Directions == {"Up", "Down", "Left", "Right"}

Opposite(d) ==
    IF d = "Up" THEN "Down"
    ELSE IF d = "Down" THEN "Up"
    ELSE IF d = "Left" THEN "Right"
    ELSE "Left"

Abs(n) == IF n < 0 THEN -n ELSE n

\* KeyboardInput events: the element state and the optional key code.
KeyEvents ==
    [state : {"Pressed"}, key_code : {"Up", "Down", "Left", "Right", "Space"}]
        \cup [state : {"Released"}, key_code : {"Left"}]

RECURSIVE SeqsUpTo(_, _)
SeqsUpTo(S, n) ==
    IF n = 0 THEN {<<>>}
    ELSE LET shorter == SeqsUpTo(S, n - 1)
         IN  shorter \cup {Append(s, e) : s \in {t \in shorter : Len(t) = n - 1}, e \in S}

\* The event batches a frame can deliver to the key-event readers.
KeySeqs == SeqsUpTo(KeyEvents, MaxKeys)

\* The entity ids of the camera and of the head, in spawn order of setup.
Camera == 0
HeadEntity == 1

\* ------------------------------------------------------------ the world
\* A world is a record:
\*   snake   the Snake resource, a sequence of entity ids
\*   seg     entity id -> [x, y, curr_dir, next_dir], the entities that carry
\*           a Segment and a Transform
\*   head    the entities that carry the Head marker
\*   food    sequence of [e, x, y], the Food entities in spawn order
\*   events  the CollisionEvent buffer
\*   addRead, overRead   the cursors of add_segment's and game_over's readers
\*   cmds    the Commands queued in the running stage
\*   exit    an AppExit event was sent
\*   panic   an unwrap() failed

\* fn setup: one head segment at (BOX_SIZE / 2, BOX_SIZE / 2) facing Up.
setup ==
    [snake |-> <<HeadEntity>>,
     seg |-> (HeadEntity :> [x |-> BOX_SIZE \div 2, y |-> BOX_SIZE \div 2,
                            curr_dir |-> "Up", next_dir |-> "Up"]),
     head |-> {HeadEntity},
     food |-> <<>>,
     events |-> <<>>,
     addRead |-> 0,
     overRead |-> 0,
     cmds |-> <<>>,
     exit |-> FALSE,
     panic |-> FALSE]

FoodIds(w) == {w.food[i].e : i \in 1..Len(w.food)}

SeqRange(s) == {s[i] : i \in 1..Len(s)}

\* Entity ids in use: spawned entities and the ids Commands has reserved.
UsedIds(w) == {Camera} \cup DOMAIN w.seg \cup FoodIds(w) \cup SeqRange(w.snake)

\* Commands::spawn_bundle(..).id(): an id no live entity holds.
FreshEntity(w) == CHOOSE n \in 1..(Cardinality(UsedIds(w)) + 1) :
                      /\ n \notin UsedIds(w)
                      /\ \A m \in 1..(n - 1) : m \in UsedIds(w)

\* ------------------------------------------------------------ key handling
\* The filters of lines 187-191: pressed events that carry a key code.
PressedKeys(keys) ==
    LET kept == SelectSeq(keys, LAMBDA ev : ev.state = "Pressed" /\ ev.key_code # "None")
    IN  [i \in 1..Len(kept) |-> kept[i].key_code]

\* Variant of ApplyKey without the four arms that drop a reverse request.
ApplyKeyNoReverseCheck(s, key) ==
    IF key \in Directions THEN [s EXCEPT !.next_dir = key] ELSE s

\* The match of update_dir and input on (key, head_seg.curr_dir).
ApplyKey(s, key) ==
    IF key = "Up" /\ s.curr_dir = "Down" THEN s
    ELSE IF key = "Left" /\ s.curr_dir = "Right" THEN s
    ELSE IF key = "Down" /\ s.curr_dir = "Up" THEN s
    ELSE IF key = "Right" /\ s.curr_dir = "Left" THEN s
    ELSE IF key = "Up" THEN [s EXCEPT !.next_dir = "Up"]
    ELSE IF key = "Left" THEN [s EXCEPT !.next_dir = "Left"]
    ELSE IF key = "Down" THEN [s EXCEPT !.next_dir = "Down"]
    ELSE IF key = "Right" THEN [s EXCEPT !.next_dir = "Right"]
    ELSE s

RECURSIVE ApplyKeys(_, _)
ApplyKeys(s, ks) ==
    IF ks = <<>> THEN s ELSE ApplyKeys(ApplyKey(s, Head(ks)), Tail(ks))

\* Query<&mut Segment, With<Head>>::single_mut succeeds on exactly one match.
HeadMatches(w) == w.head \cap DOMAIN w.seg

\* fn update_dir.
update_dir(w, keys) ==
    IF Cardinality(HeadMatches(w)) # 1 THEN [w EXCEPT !.panic = TRUE]
    ELSE LET h == CHOOSE e \in HeadMatches(w) : TRUE
         IN  [w EXCEPT !.seg[h] = ApplyKeys(w.seg[h], PressedKeys(keys))]

\* fn input: the same loop over the key events as update_dir ...
input(w, keys) ==
    IF Cardinality(HeadMatches(w)) # 1 THEN [w EXCEPT !.panic = TRUE]
    ELSE LET h == CHOOSE e \in HeadMatches(w) : TRUE
         IN  [w EXCEPT !.seg[h] = ApplyKeys(w.seg[h], PressedKeys(keys))]

\* ... and the BoxInput it returns: `let mut input: u8 = 0; BoxInput { inp: input }`.
InputByte(w, keys) == 0

\* ------------------------------------------------------------ move_snake
Max(S) == CHOOSE m \in S : \A n \in S : n <= m

\* The head's step of lines 273-279: one BOX_SIZE along next_dir, then
\* curr_dir = next_dir.
StepHead(s) ==
    [x |-> IF s.next_dir = "Right" THEN s.x + BOX_SIZE
           ELSE IF s.next_dir = "Left" THEN s.x - BOX_SIZE ELSE s.x,
     y |-> IF s.next_dir = "Up" THEN s.y + BOX_SIZE
           ELSE IF s.next_dir = "Down" THEN s.y - BOX_SIZE ELSE s.y,
     curr_dir |-> s.next_dir,
     next_dir |-> s.next_dir]

\* Variant of move_snake that copies along the chain in place, so that each
\* segment reads its predecessor after the predecessor was overwritten.
move_snake_in_place(w) ==
    LET n == Len(w.snake)
        h == w.snake[1]
    IN  IF \E i \in 1..n : w.snake[i] \notin DOMAIN w.seg
        THEN [w EXCEPT !.panic = TRUE]
        ELSE [w EXCEPT !.seg = [e \in DOMAIN w.seg |->
                                   IF e \in SeqRange(w.snake)
                                   THEN IF e = h THEN StepHead(w.seg[h]) ELSE w.seg[h]
                                   ELSE w.seg[e]]]

\* fn move_snake: snapshot every (Segment, Transform) of the snake, write the
\* snapshot of entry i-1 into entry i, then step the head.
move_snake(w) ==
    LET n == Len(w.snake)
        h == w.snake[1]
    IN  IF n = 0 \/ \E i \in 1..n : w.snake[i] \notin DOMAIN w.seg
        THEN [w EXCEPT !.panic = TRUE]
        ELSE LET old == [i \in 1..n |-> w.seg[w.snake[i]]]
                 Places(e) == {i \in 2..n : w.snake[i] = e}
                 shifted == [e \in DOMAIN w.seg |->
                                IF n > 1 /\ Places(e) # {}
                                THEN old[Max(Places(e)) - 1]
                                ELSE w.seg[e]]
             IN  [w EXCEPT !.seg = [shifted EXCEPT ![h] = StepHead(shifted[h])]]

\* ------------------------------------------------------------ check_collisions
\* collide(a_pos, a_size, b_pos, b_size) of bevy's collide_aabb with both sizes
\* Transform::scale.truncate() = (1, 1): the two unit boxes overlap.
collide(a, b) ==
    /\ 2 * a.x - 1 < 2 * b.x + 1
    /\ 2 * a.x + 1 > 2 * b.x - 1
    /\ 2 * a.y - 1 < 2 * b.y + 1
    /\ 2 * a.y + 1 > 2 * b.y - 1

\* Variant of OutOfBounds that compares against the whole extent, not half.
OutOfBoundsWholeExtent(t) ==
    \/ Abs(t.x) >= BOX_SIZE * WIDTH_BOXES
    \/ Abs(t.y) >= BOX_SIZE * HEIGHT_BOXES

\* Variant of OutOfBounds whose wall stands one cell early.
OutOfBoundsOneEarly(t) ==
    \/ 2 * (Abs(t.x) + BOX_SIZE) >= BOX_SIZE * WIDTH_BOXES
    \/ 2 * (Abs(t.y) + BOX_SIZE) >= BOX_SIZE * HEIGHT_BOXES

\* The boundary test of lines 290-291:
\* |x| >= BOX_SIZE * WIDTH_BOXES / 2 || |y| >= BOX_SIZE * HEIGHT_BOXES / 2.
OutOfBounds(t) ==
    \/ 2 * Abs(t.x) >= BOX_SIZE * WIDTH_BOXES
    \/ 2 * Abs(t.y) >= BOX_SIZE * HEIGHT_BOXES

RECURSIVE Repeat(_, _)
Repeat(v, n) == IF n = 0 THEN <<>> ELSE <<v>> \o Repeat(v, n - 1)

\* Variant of check_collisions that sends Safe without despawning the food.
check_collisions_keep_food(w) ==
    IF Cardinality(HeadMatches(w)) # 1 THEN [w EXCEPT !.panic = TRUE]
    ELSE LET h == w.seg[CHOOSE e \in HeadMatches(w) : TRUE]
             eaten == SelectSeq(w.food, LAMBDA f : collide(h, f))
         IN  [w EXCEPT !.events = @ \o Repeat("Safe", Len(eaten))]

\* Variant of check_collisions whose segment loop also visits the head.
check_collisions_with_head(w) ==
    IF Cardinality(HeadMatches(w)) # 1 THEN [w EXCEPT !.panic = TRUE]
    ELSE LET h == w.seg[CHOOSE e \in HeadMatches(w) : TRUE]
             wall == IF OutOfBounds(h) THEN <<"Deadly">> ELSE <<>>
             hits == {e \in DOMAIN w.seg : collide(h, w.seg[e])}
             eaten == SelectSeq(w.food, LAMBDA f : collide(h, f))
         IN  [w EXCEPT !.events = @ \o wall \o Repeat("Deadly", Cardinality(hits))
                                      \o Repeat("Safe", Len(eaten)),
                       !.cmds = @ \o [i \in 1..Len(eaten) |->
                                         [op |-> "despawn", e |-> eaten[i].e]]]

\* Variant of check_collisions without the loop over the non-head segments.
check_collisions_no_segments(w) ==
    IF Cardinality(HeadMatches(w)) # 1 THEN [w EXCEPT !.panic = TRUE]
    ELSE LET h == w.seg[CHOOSE e \in HeadMatches(w) : TRUE]
             wall == IF OutOfBounds(h) THEN <<"Deadly">> ELSE <<>>
             eaten == SelectSeq(w.food, LAMBDA f : collide(h, f))
         IN  [w EXCEPT !.events = @ \o wall \o Repeat("Safe", Len(eaten)),
                       !.cmds = @ \o [i \in 1..Len(eaten) |->
                                         [op |-> "despawn", e |-> eaten[i].e]]]

\* fn check_collisions: Deadly for the boundary, Deadly for every non-head
\* segment the head overlaps, Safe and a queued despawn for every food it
\* overlaps.
check_collisions(w) ==
    IF Cardinality(HeadMatches(w)) # 1 THEN [w EXCEPT !.panic = TRUE]
    ELSE LET h == w.seg[CHOOSE e \in HeadMatches(w) : TRUE]
             wall == IF OutOfBounds(h) THEN <<"Deadly">> ELSE <<>>
             hits == {e \in DOMAIN w.seg \ w.head : collide(h, w.seg[e])}
             eaten == SelectSeq(w.food, LAMBDA f : collide(h, f))
         IN  [w EXCEPT !.events = @ \o wall \o Repeat("Deadly", Cardinality(hits))
                                      \o Repeat("Safe", Len(eaten)),
                       !.cmds = @ \o [i \in 1..Len(eaten) |->
                                         [op |-> "despawn", e |-> eaten[i].e]]]

\* ------------------------------------------------------------ add_segment
\* Variant of Behind that offsets along curr_dir instead of against it.
Ahead(t) ==
    [x |-> IF t.curr_dir = "Left" THEN t.x - BOX_SIZE
           ELSE IF t.curr_dir = "Right" THEN t.x + BOX_SIZE ELSE t.x,
     y |-> IF t.curr_dir = "Up" THEN t.y + BOX_SIZE
           ELSE IF t.curr_dir = "Down" THEN t.y - BOX_SIZE ELSE t.y]

\* The position of lines 333-338: one cell behind the tail, against curr_dir.
Behind(t) ==
    [x |-> IF t.curr_dir = "Left" THEN t.x + BOX_SIZE
           ELSE IF t.curr_dir = "Right" THEN t.x - BOX_SIZE ELSE t.x,
     y |-> IF t.curr_dir = "Up" THEN t.y - BOX_SIZE
           ELSE IF t.curr_dir = "Down" THEN t.y + BOX_SIZE ELSE t.y]

\* Variant of Grow that puts the new entity in front of the snake.
GrowAtFront(w) ==
    LET tail == w.snake[Len(w.snake)]
    IN  IF w.snake = <<>> \/ tail \notin DOMAIN w.seg
        THEN [w EXCEPT !.panic = TRUE]
        ELSE LET t == w.seg[tail]
                 id == FreshEntity(w)
                 at == Behind(t)
             IN  [w EXCEPT !.snake = <<id>> \o @,
                           !.cmds = Append(@, [op |-> "spawn", e |-> id,
                                               seg |-> [x |-> at.x, y |-> at.y,
                                                        curr_dir |-> t.curr_dir,
                                                        next_dir |-> t.next_dir]])]

\* One Safe event: read the tail's Segment and Transform (unwrap), push a new
\* entity id onto the snake and queue its spawn with a copy of the tail's Segment.
Grow(w) ==
    LET tail == w.snake[Len(w.snake)]
    IN  IF w.snake = <<>> \/ tail \notin DOMAIN w.seg
        THEN [w EXCEPT !.panic = TRUE]
        ELSE LET t == w.seg[tail]
                 id == FreshEntity(w)
                 at == Behind(t)
             IN  [w EXCEPT !.snake = Append(@, id),
                           !.cmds = Append(@, [op |-> "spawn", e |-> id,
                                               seg |-> [x |-> at.x, y |-> at.y,
                                                        curr_dir |-> t.curr_dir,
                                                        next_dir |-> t.next_dir]])]

RECURSIVE GrowFor(_, _)
GrowFor(w, evs) ==
    IF evs = <<>> \/ w.panic THEN w
    ELSE GrowFor(IF Head(evs) = "Safe" THEN Grow(w) ELSE w, Tail(evs))

\* Variant of add_segment that reads the events and grows nothing.
add_segment_ignoring(w) == [w EXCEPT !.addRead = Len(w.events)]

\* fn add_segment: the events its reader has not seen, in order.
add_segment(w) ==
    [GrowFor(w, SubSeq(w.events, w.addRead + 1, Len(w.events)))
        EXCEPT !.addRead = Len(w.events)]

\* ------------------------------------------------------------ game_over
\* Variant of game_over that sends AppExit for every unseen event of any kind.
game_over_on_any(w) ==
    [w EXCEPT !.exit = @ \/ w.overRead < Len(w.events),
              !.overRead = Len(w.events)]

\* fn game_over: AppExit for every unseen Deadly event.
game_over(w) ==
    LET unseen == SubSeq(w.events, w.overRead + 1, Len(w.events))
    IN  [w EXCEPT !.exit = @ \/ \E i \in 1..Len(unseen) : unseen[i] = "Deadly",
                  !.overRead = Len(w.events)]

\* ------------------------------------------------------------ stage end
RECURSIVE ApplyCmds(_, _)
ApplyCmds(w, cs) ==
    IF cs = <<>> THEN w
    ELSE LET c == Head(cs)
             next == IF c.op = "despawn"
                     THEN [w EXCEPT !.food = SelectSeq(@, LAMBDA f : f.e # c.e)]
                     ELSE [w EXCEPT !.seg = (c.e :> c.seg) @@ @]
         IN  ApplyCmds(next, Tail(cs))

\* The end of a run of the rollback stage: the queued Commands are applied; the
\* CollisionEvents of the run have been read by both readers and are dropped
\* with the cursors.
apply_buffers(w) ==
    [ApplyCmds(w, w.cmds) EXCEPT !.cmds = <<>>, !.events = <<>>,
                                 !.addRead = 0, !.overRead = 0]

\* ------------------------------------------------------------ spawn_food
\* transform_query.iter().count(): the camera, the segments and the foods.
TransformCount(w) == 1 + Cardinality(DOMAIN w.seg) + Len(w.food)

\* Variant of CellFree that looks at the camera and the segments only.
CellFreeOfSegments(w, x_pos, y_pos) ==
    /\ ~(x_pos = 0 /\ y_pos = 0)
    /\ \A e \in DOMAIN w.seg : ~(w.seg[e].x = x_pos /\ w.seg[e].y = y_pos)

\* The filter of lines 365-369: no Transform at exactly (x_pos, y_pos). The
\* camera's Transform is at (0, 0).
CellFree(w, x_pos, y_pos) ==
    /\ ~(x_pos = 0 /\ y_pos = 0)
    /\ \A e \in DOMAIN w.seg : ~(w.seg[e].x = x_pos /\ w.seg[e].y = y_pos)
    /\ \A i \in 1..Len(w.food) : ~(w.food[i].x = x_pos /\ w.food[i].y = y_pos)

\* Variant of CellFree that looks at the foods only.
CellFreeOfFood(w, x_pos, y_pos) ==
    \A i \in 1..Len(w.food) : ~(w.food[i].x = x_pos /\ w.food[i].y = y_pos)

\* The draws of lines 351-360: BOX_SIZE * gen_range(-N/2 .. N/2) + BOX_SIZE / 2.
DrawX == {BOX_SIZE * c + BOX_SIZE \div 2 :
              c \in (0 - WIDTH_BOXES \div 2)..(WIDTH_BOXES \div 2 - 1)}
DrawY == {BOX_SIZE * c + BOX_SIZE \div 2 :
              c \in (0 - HEIGHT_BOXES \div 2)..(HEIGHT_BOXES \div 2 - 1)}

\* fn spawn_food, for the draw (x_pos, y_pos) that ends its loop: nothing when
\* the Transform count has reached the number of cells, else a Food there.
spawn_food(w, x_pos, y_pos) ==
    IF TransformCount(w) >= WIDTH_BOXES * HEIGHT_BOXES THEN w
    ELSE [w EXCEPT !.food = Append(@, [e |-> FreshEntity(w), x |-> x_pos, y |-> y_pos])]

\* The draws on which the loop of spawn_food ends.
EndingDraws(w) ==
    IF TransformCount(w) >= WIDTH_BOXES * HEIGHT_BOXES THEN DrawX \X DrawY
    ELSE {d \in DrawX \X DrawY : CellFree(w, d[1], d[2])}

\* ------------------------------------------------------------ the schedule
Systems == {"update_dir", "move_snake", "check_collisions", "add_segment", "game_over"}

\* The .after() constraints of the rollback stage, as <<system, runs after>>;
\* update_dir is added without any.
After == {<<"check_collisions", "move_snake">>,
          <<"add_segment", "check_collisions">>,
          <<"game_over", "check_collisions">>}

\* A system may start once every system it is declared after has run.
Ready(s, ran) ==
    /\ s \notin ran
    /\ \A c \in After : c[1] = s => c[2] \in ran

\* ------------------------------------------------------------ state
\* Two copies of the program: copy 1 is the program under Spec; the two-run
\* specifications run copy 2 beside it.
Copies == {1, 2}

VARIABLES
    world,   \* copy -> its world
    stage,   \* copy -> [phase, ran, keys, frame, inp, fed, spawns]: where the
             \* copy's frame stands, the systems that ran in the running stage,
             \* the key events update_dir's reader has not seen, the number of
             \* completed ticks, the BoxInput byte of the frame, whether the
             \* spawner ran since the last tick, and how often it ran
    session  \* the GGRS session: [order, saved, rolled, inbox, confirmed]: the
             \* order the scheduler runs the systems in, the snapshots copy 2
             \* saved (one per frame), whether copy 2 has rolled back, and per
             \* peer the input bytes in flight to it and the number of the
             \* other peer's frames it has confirmed

vars == <<world, stage, session>>

StageInit == [phase |-> "idle", ran |-> {}, keys |-> <<>>, frame |-> 0,
              inp |-> 0, fed |-> FALSE, spawns |-> 0]

\* The registered rollback types: Transform, Segment and Snake.
Snapshot(w) == [snake |-> w.snake, seg |-> w.seg]

SessionInit ==
    [order |-> <<"update_dir", "move_snake", "check_collisions", "add_segment", "game_over">>,
     saved |-> <<Snapshot(setup)>>,
     rolled |-> FALSE,
     inbox |-> [p \in Copies |-> {}],
     confirmed |-> [p \in Copies |-> 0]]

Init ==
    /\ world = [p \in Copies |-> setup]
    /\ stage = [p \in Copies |-> StageInit]
    /\ session = SessionInit

\* The spawner draws any cell of the play-field; the draws explored are the
\* cells next to the head's, where the food meets the snake soonest.
DrawOffsets == {<<0, 1>>, <<0, -1>>, <<1, 0>>, <<-1, 0>>}

NearHead(w, x_pos, y_pos) ==
    \E e \in HeadMatches(w), o \in DrawOffsets :
        /\ x_pos = w.seg[e].x + o[1] * BOX_SIZE
        /\ y_pos = w.seg[e].y + o[2] * BOX_SIZE

\* SpawnFoodStage: spawn_food runs between two ticks, at most once (its period
\* is 2.0 s, the tick's 0.10 s).
SpawnFood(p) ==
    /\ stage[p].phase = "idle"
    /\ ~stage[p].fed
    /\ stage[p].spawns < MaxFood
    /\ \E d \in EndingDraws(world[p]) :
          /\ NearHead(world[p], d[1], d[2])
          /\ world' = [world EXCEPT ![p] = spawn_food(@, d[1], d[2])]
    /\ stage' = [stage EXCEPT ![p].fed = TRUE, ![p].spawns = @ + 1]
    /\ UNCHANGED session

\* A frame starts: the key events of the frame are delivered, the GGRS stage
\* runs the input system and then starts the rollback schedule.
Input(p) ==
    /\ stage[p].phase = "idle"
    /\ stage[p].frame < MaxTick
    /\ \E ks \in KeySeqs :
          /\ world' = [world EXCEPT ![p] = input(@, ks)]
          /\ stage' = [stage EXCEPT ![p].phase = "stage", ![p].keys = ks,
                                    ![p].ran = {},
                                    ![p].inp = InputByte(world[p], ks)]
    /\ UNCHANGED session

\* A system of the running stage may start.
CanRun(p, s) ==
    /\ stage[p].phase = "stage"
    /\ ~world[p].panic
    /\ Ready(s, stage[p].ran)

UpdateDir(p) ==
    /\ CanRun(p, "update_dir")
    /\ world' = [world EXCEPT ![p] = update_dir(@, stage[p].keys)]
    /\ stage' = [stage EXCEPT ![p].ran = @ \cup {"update_dir"}, ![p].keys = <<>>]
    /\ UNCHANGED session

MoveSnake(p) ==
    /\ CanRun(p, "move_snake")
    /\ world' = [world EXCEPT ![p] = move_snake(@)]
    /\ stage' = [stage EXCEPT ![p].ran = @ \cup {"move_snake"}]
    /\ UNCHANGED session

CheckCollisions(p) ==
    /\ CanRun(p, "check_collisions")
    /\ world' = [world EXCEPT ![p] = check_collisions(@)]
    /\ stage' = [stage EXCEPT ![p].ran = @ \cup {"check_collisions"}]
    /\ UNCHANGED session

AddSegment(p) ==
    /\ CanRun(p, "add_segment")
    /\ world' = [world EXCEPT ![p] = add_segment(@)]
    /\ stage' = [stage EXCEPT ![p].ran = @ \cup {"add_segment"}]
    /\ UNCHANGED session

GameOver(p) ==
    /\ CanRun(p, "game_over")
    /\ world' = [world EXCEPT ![p] = game_over(@)]
    /\ stage' = [stage EXCEPT ![p].ran = @ \cup {"game_over"}]
    /\ UNCHANGED session

\* The stage ends once its five systems ran: Commands are applied, and the app
\* exits after the frame if AppExit was sent.
EndStage(p) ==
    /\ stage[p].phase = "stage"
    /\ ~world[p].panic
    /\ stage[p].ran = Systems
    /\ world' = [world EXCEPT ![p] = apply_buffers(@)]
    /\ stage' = [stage EXCEPT ![p].phase = IF world[p].exit THEN "exited" ELSE "idle",
                              ![p].ran = {}, ![p].keys = <<>>,
                              ![p].frame = @ + 1, ![p].fed = FALSE]
    /\ UNCHANGED session

Next ==
    \/ SpawnFood(1)
    \/ Input(1)
    \/ UpdateDir(1)
    \/ MoveSnake(1)
    \/ CheckCollisions(1)
    \/ AddSegment(1)
    \/ GameOver(1)
    \/ EndStage(1)

Spec == Init /\ [][Next]_vars

\* ------------------------------------------------------------ properties
\* Unit vectors of the directions, for stating positions.
DirX(d) == IF d = "Right" THEN 1 ELSE IF d = "Left" THEN -1 ELSE 0
DirY(d) == IF d = "Up" THEN 1 ELSE IF d = "Down" THEN -1 ELSE 0

Press(k) == [state |-> "Pressed", key_code |-> k]

\* The step of copy p in which system s runs.
Runs(p, s) == s \notin stage[p].ran /\ s \in stage'[p].ran

\* The segments of the snake, head first.
Body(w) == [i \in 1..Len(w.snake) |-> w.seg[w.snake[i]]]

\* C4 (reverse rejection, I4): in every reachable state no segment's next_dir
\* is the opposite of its curr_dir, so move_snake never commits a reversal;
\* and a press of the key opposite to the head's curr_dir, handled by
\* update_dir or by input, leaves the head's next_dir as it was.
ReverseRejection ==
    LET w == world[1]
    IN  /\ \A e \in DOMAIN w.seg : w.seg[e].next_dir # Opposite(w.seg[e].curr_dir)
        /\ \A i \in 1..Len(w.cmds) :
              w.cmds[i].op = "spawn" =>
                  w.cmds[i].seg.next_dir # Opposite(w.cmds[i].seg.curr_dir)
        /\ \A h \in HeadMatches(w) :
              LET rev == <<Press(Opposite(w.seg[h].curr_dir))>>
              IN  /\ update_dir(w, rev).seg[h].next_dir = w.seg[h].next_dir
                  /\ input(w, rev).seg[h].next_dir = w.seg[h].next_dir

\* Witness of C4: the head has turned Left, the frame delivered a press of
\* Right, input has handled it and the snake has a second segment.
ReverseRejectionWitness ==
    /\ stage[1].phase = "stage"
    /\ stage[1].keys = <<Press("Right")>>
    /\ stage[1].ran = {}
    /\ Len(world[1].snake) >= 2
    /\ world[1].seg[HeadEntity].curr_dir = "Left"

\* C5 (food exclusivity, I3): between ticks (after a tick has ended and after
\* any run of the spawner) no Food is at the position of a Segment.
FoodExclusive ==
    stage[1].phase # "stage" =>
        \A i \in 1..Len(world[1].food), e \in DOMAIN world[1].seg :
            ~(world[1].food[i].x = world[1].seg[e].x /\ world[1].food[i].y = world[1].seg[e].y)

\* Witness of C5: after a tick in which the snake grew, the spawner has run
\* again and a Food lies beside the two-segment snake.
FoodExclusiveWitness ==
    /\ stage[1].phase = "idle"
    /\ stage[1].fed
    /\ stage[1].frame >= 1
    /\ Len(world[1].snake) >= 2
    /\ Len(world[1].food) >= 1

\* C6 (growth placement): the add_segment step that reads one Safe event
\* appends one fresh entity to the snake and queues its spawn one cell behind
\* the tail, against the tail's curr_dir, with the tail's curr_dir and
\* next_dir, and changes no spawned segment; without a Safe event it changes
\* nothing; and the end of the stage spawns exactly what was queued.
GrowthPlacementStep ==
    LET w == world[1]
        v == world'[1]
        n == Len(w.snake)
        safe == Len(SelectSeq(w.events, LAMBDA ev : ev = "Safe"))
        t == w.seg[w.snake[n]]
    IN  /\ (Runs(1, "add_segment") /\ safe = 1) =>
              /\ Len(v.snake) = n + 1
              /\ SubSeq(v.snake, 1, n) = w.snake
              /\ v.snake[n + 1] \notin UsedIds(w)
              /\ v.seg = w.seg
              /\ v.food = w.food
              /\ v.cmds = Append(w.cmds,
                     [op |-> "spawn", e |-> v.snake[n + 1],
                      seg |-> [x |-> t.x - DirX(t.curr_dir) * BOX_SIZE,
                               y |-> t.y - DirY(t.curr_dir) * BOX_SIZE,
                               curr_dir |-> t.curr_dir,
                               next_dir |-> t.next_dir]])
        /\ (Runs(1, "add_segment") /\ safe = 0) =>
              /\ v.snake = w.snake /\ v.seg = w.seg /\ v.cmds = w.cmds
        /\ (stage[1].phase = "stage" /\ stage'[1].phase # "stage") =>
              /\ v.snake = w.snake
              /\ \A e \in DOMAIN w.seg : e \in DOMAIN v.seg /\ v.seg[e] = w.seg[e]
              /\ \A i \in 1..Len(w.cmds) :
                    w.cmds[i].op = "spawn" =>
                        /\ w.cmds[i].e \in DOMAIN v.seg
                        /\ v.seg[w.cmds[i].e] = w.cmds[i].seg
              /\ DOMAIN v.seg = SeqRange(v.snake)

GrowthPlacement == [][GrowthPlacementStep]_vars

\* Witness of C6: add_segment has run on a Safe event of a two-segment snake
\* whose tail faces Left, and the third segment is queued to its right.
GrowthPlacementWitness ==
    LET w == world[1]
    IN  /\ stage[1].phase = "stage"
        /\ "add_segment" \in stage[1].ran
        /\ Len(w.snake) = 3
        /\ w.snake[2] \in DOMAIN w.seg
        /\ w.seg[w.snake[2]].curr_dir = "Left"
        /\ \E i \in 1..Len(w.cmds) :
              /\ w.cmds[i].op = "spawn"
              /\ w.cmds[i].e = w.snake[3]
              /\ w.cmds[i].seg.x = w.seg[w.snake[2]].x + BOX_SIZE
              /\ w.cmds[i].seg.y = w.seg[w.snake[2]].y

\* C7 (shift-register move): the move_snake step keeps the snake's order,
\* gives every non-head segment i the position and directions segment i-1 had
\* before the step, moves the head one cell along its next_dir and sets its
\* curr_dir to next_dir.
ShiftRegisterStep ==
    LET w == world[1]
        v == world'[1]
        n == Len(w.snake)
        h == w.seg[w.snake[1]]
    IN  Runs(1, "move_snake") =>
            /\ ~v.panic
            /\ v.snake = w.snake
            /\ DOMAIN v.seg = DOMAIN w.seg
            /\ \A i \in 2..n : v.seg[w.snake[i]] = w.seg[w.snake[i - 1]]
            /\ v.seg[w.snake[1]] = [x |-> h.x + DirX(h.next_dir) * BOX_SIZE,
                                    y |-> h.y + DirY(h.next_dir) * BOX_SIZE,
                                    curr_dir |-> h.next_dir,
                                    next_dir |-> h.next_dir]
            /\ v.food = w.food

ShiftRegister == [][ShiftRegisterStep]_vars

\* The cell of a coordinate, in cells from the setup cell, and back.
Cell(v) == (v - BOX_SIZE \div 2) \div BOX_SIZE

At(cx, cy) == [x |-> BOX_SIZE * cx + BOX_SIZE \div 2, y |-> BOX_SIZE * cy + BOX_SIZE \div 2]

Pos(s) == [x |-> s.x, y |-> s.y]

\* Witness of C7: the scenario of the specification, in cells from the setup
\* cell: the snake [(0,2),(0,1),(0,0)], all Up, has moved to [(0,3),(0,2),(0,1)].
ShiftRegisterWitness ==
    LET w == world[1]
    IN  /\ stage[1].phase = "stage"
        /\ "move_snake" \in stage[1].ran
        /\ "check_collisions" \notin stage[1].ran
        /\ Len(w.snake) = 3
        /\ SeqRange(w.snake) \subseteq DOMAIN w.seg
        /\ [i \in 1..3 |-> Pos(Body(w)[i])] = <<At(0, 3), At(0, 2), At(0, 1)>>
        /\ \A i \in 1..3 : Body(w)[i].curr_dir = "Up"

\* ------------------------------------------------------------ whole frames
\* The orders in which the scheduler can run the five systems of the stage.
ScheduleOrders ==
    {o \in [1..Cardinality(Systems) -> Systems] :
        /\ \A i, j \in DOMAIN o : i # j => o[i] # o[j]
        /\ \A c \in After : \E i, j \in DOMAIN o : i < j /\ o[i] = c[2] /\ o[j] = c[1]}

RunSystem(w, s, keys) ==
    IF s = "update_dir" THEN update_dir(w, keys)
    ELSE IF s = "move_snake" THEN move_snake(w)
    ELSE IF s = "check_collisions" THEN check_collisions(w)
    ELSE IF s = "add_segment" THEN add_segment(w)
    ELSE game_over(w)

RECURSIVE RunOrder(_, _, _)
RunOrder(w, keys, order) ==
    IF order = <<>> \/ w.panic THEN w
    ELSE RunOrder(RunSystem(w, Head(order), keys), keys, Tail(order))

\* One run of the rollback stage, its systems in the given order, to its end.
StageRun(w, keys, order) == apply_buffers(RunOrder(w, keys, order))

\* One frame of the GGRS stage: the input system, then the rollback stage.
Frame(w, keys, order) == StageRun(input(w, keys), keys, order)

FrameDone(st, w) ==
    [st EXCEPT !.frame = @ + 1, !.fed = FALSE,
               !.phase = IF w.exit THEN "exited" ELSE "idle"]

\* Loading a snapshot puts the registered state back; Food is not registered.
Load(w, snap) == [w EXCEPT !.snake = snap.snake, !.seg = snap.seg]

\* Resimulation: the rollback stage runs n times in one frame. The input
\* system is not run again and the KeyboardInput events of the frames being
\* resimulated were consumed by update_dir's reader when they first ran.
RECURSIVE Resimulate(_, _, _)
Resimulate(w, n, order) ==
    IF n = 0 \/ w.exit \/ w.panic THEN w
    ELSE Resimulate(StageRun(w, <<>>, order), n - 1, order)

PairKeySeqs == SeqsUpTo(KeyEvents, PairKeys)

\* FrameState: the snake's order, every segment's position and directions,
\* and the positions of the food.
FrameState(w) ==
    [snake |-> [i \in 1..Len(w.snake) |->
                   IF w.snake[i] \in DOMAIN w.seg THEN w.seg[w.snake[i]] ELSE "unspawned"],
     food |-> {Pos(w.food[i]) : i \in 1..Len(w.food)}]

BothIdle == \A p \in Copies : stage[p].phase = "idle"

\* The spawner draws the same cell in both copies.
TwinSpawn ==
    /\ BothIdle
    /\ ~session.rolled
    /\ ~stage[1].fed
    /\ stage[1].spawns < MaxFood
    /\ \E d \in EndingDraws(world[1]) \cap EndingDraws(world[2]) :
          /\ NearHead(world[1], d[1], d[2])
          /\ world' = [p \in Copies |-> spawn_food(world[p], d[1], d[2])]
    /\ stage' = [p \in Copies |-> [stage[p] EXCEPT !.fed = TRUE, !.spawns = @ + 1]]
    /\ UNCHANGED session

\* Both copies run one frame on the same key events: copy 1 with update_dir
\* first (session.order), copy 2 in any order the scheduler can pick.
TwinTick ==
    /\ BothIdle
    /\ stage[1].frame < PairTick
    /\ \E ks \in PairKeySeqs, o2 \in ScheduleOrders :
          LET w1 == Frame(world[1], ks, session.order)
              w2 == Frame(world[2], ks, o2)
          IN  /\ world' = [world EXCEPT ![1] = w1, ![2] = w2]
              /\ stage' = [stage EXCEPT ![1] = FrameDone(@, w1), ![2] = FrameDone(@, w2)]
    /\ UNCHANGED session

NextTwin == TwinSpawn \/ TwinTick

SpecTwin == Init /\ [][NextTwin]_vars

\* C2 (determinism): two runs of the per-tick transition from the same
\* initial state on the same key events and the same food hold the same
\* FrameState after every tick, whatever order the scheduler picks.
Determinism == FrameState(world[1]) = FrameState(world[2])

\* ------------------------------------------------------------ rollback
InitRollback ==
    /\ world = [p \in Copies |-> setup]
    /\ stage = [p \in Copies |-> StageInit]
    /\ \E o \in ScheduleOrders : session = [SessionInit EXCEPT !.order = o]

\* Both copies run one frame on the same key events in the same order; copy 2
\* saves the snapshot of the frame.
RollbackTick ==
    /\ BothIdle
    /\ ~session.rolled
    /\ stage[1].frame < PairTick
    /\ \E ks \in PairKeySeqs :
          LET w1 == Frame(world[1], ks, session.order)
              w2 == Frame(world[2], ks, session.order)
          IN  /\ world' = [world EXCEPT ![1] = w1, ![2] = w2]
              /\ stage' = [stage EXCEPT ![1] = FrameDone(@, w1), ![2] = FrameDone(@, w2)]
              /\ session' = [session EXCEPT !.saved = Append(@, Snapshot(w2))]

\* Copy 2 at tick N loads the snapshot of tick k and resimulates k+1 .. N.
Rollback ==
    /\ BothIdle
    /\ ~session.rolled
    /\ \E k \in 0..stage[2].frame :
          world' = [world EXCEPT ![2] =
                       Resimulate(Load(@, session.saved[k + 1]),
                                  stage[2].frame - k, session.order)]
    /\ session' = [session EXCEPT !.rolled = TRUE]
    /\ UNCHANGED stage

NextRollback == TwinSpawn \/ RollbackTick \/ Rollback

SpecRollback == InitRollback /\ [][NextRollback]_vars

\* C1 (rollback equivalence): after copy 2 has rolled back to some tick k and
\* resimulated to tick N, it holds the FrameState of the uninterrupted copy 1.
RollbackEquivalence ==
    session.rolled => FrameState(world[1]) = FrameState(world[2])

\* ------------------------------------------------------------ two peers
Other(p) == IF p = 1 THEN 2 ELSE 1

\* Peer p runs one frame on its local key events and sends the frame's input
\* byte to the other peer.
PeerTick(p) ==
    /\ stage[p].phase = "idle"
    /\ stage[p].frame < PeerFrames
    /\ stage[p].frame - session.confirmed[p] < Window
    /\ \E ks \in KeySeqs :
          LET w == Frame(world[p], ks, session.order)
          IN  /\ world' = [world EXCEPT ![p] = w]
              /\ stage' = [stage EXCEPT
                              ![p] = [FrameDone(@, w) EXCEPT !.inp = InputByte(world[p], ks)]]
              /\ session' = [session EXCEPT !.inbox[Other(p)] =
                                @ \cup {[frame |-> stage[p].frame + 1,
                                         inp |-> InputByte(world[p], ks)]}]

\* Peer p receives the other peer's next input byte. It equals the byte p
\* predicted (every byte is InputByte, and none is read by a system), so the
\* frame is confirmed without a rollback.
Deliver(p) ==
    /\ \E m \in session.inbox[p] :
          /\ m.frame = session.confirmed[p] + 1
          /\ session' = [session EXCEPT !.inbox[p] = @ \ {m},
                                        !.confirmed[p] = m.frame]
    /\ UNCHANGED <<world, stage>>

NextPeers ==
    \/ SpawnFood(1) \/ SpawnFood(2)
    \/ PeerTick(1) \/ PeerTick(2)
    \/ Deliver(1) \/ Deliver(2)

SpecPeers == Init /\ [][NextPeers]_vars

\* C3 (lockstep agreement): whenever both peers have run frame f and each has
\* confirmed the other's input bytes up to f, they hold the same FrameState.
LockstepAgreement ==
    (/\ stage[1].frame = stage[2].frame
     /\ \A p \in Copies : session.confirmed[p] = stage[p].frame
     /\ \A p \in Copies : stage[p].phase # "stage")
        => FrameState(world[1]) = FrameState(world[2])

\* ------------------------------------------------------------ the play-field
\* A single-segment snake anywhere in the play-field, one tick before MaxTick:
\* the head stands on a cell of the grid that it entered from a cell of the
\* grid along curr_dir, and no turn is pending.
FieldCellsX == (0 - WIDTH_BOXES \div 2)..(WIDTH_BOXES \div 2 - 1)
FieldCellsY == (0 - HEIGHT_BOXES \div 2)..(HEIGHT_BOXES \div 2 - 1)

InitField ==
    /\ \E cx \in FieldCellsX, cy \in FieldCellsY, d \in Directions :
          /\ cx - DirX(d) \in FieldCellsX
          /\ cy - DirY(d) \in FieldCellsY
          /\ world = [p \in Copies |->
                         [setup EXCEPT !.seg[HeadEntity] =
                             [x |-> At(cx, cy).x, y |-> At(cx, cy).y,
                              curr_dir |-> d, next_dir |-> d]]]
    /\ stage = [p \in Copies |-> [StageInit EXCEPT !.frame = MaxTick - 1]]
    /\ session = SessionInit

SpecField == InitField /\ [][Next]_vars

\* check_collisions has run in the running tick of a single-segment snake
\* whose head moved along d and stands k cells from the setup cell on d's axis.
Brought(d, k) ==
    LET w == world[1]
    IN  /\ stage[1].phase = "stage"
        /\ "check_collisions" \in stage[1].ran
        /\ Len(w.snake) = 1
        /\ w.seg[HeadEntity].curr_dir = d
        /\ Cell(w.seg[HeadEntity].x) = k * DirX(d)
        /\ Cell(w.seg[HeadEntity].y) = k * DirY(d)

DeadlySent == \E i \in 1..Len(world[1].events) : world[1].events[i] = "Deadly"

\* C8 as stated: along an axis of half-extent 5 cells (the horizontal one:
\* WIDTH_BOXES / 2) no Deadly event is emitted on the ticks that bring the head
\* of a single-segment snake to the cells 1, 2, 3, 4 and 5 from the setup
\* cell; likewise upwards, to the vertical half-extent.
BoundaryScenarioAsStated ==
    /\ \A k \in 1..(WIDTH_BOXES \div 2) : Brought("Right", k) => ~DeadlySent
    /\ \A k \in 1..(HEIGHT_BOXES \div 2) : Brought("Up", k) => ~DeadlySent

\* C8 amended: the ticks that bring the head to the cells 1 .. half-extent - 1
\* emit no Deadly event, and the tick that brings it to the cell at the
\* half-extent (5 to the right, 10 upwards) emits Deadly.
BoundaryScenario ==
    /\ \A k \in 1..(WIDTH_BOXES \div 2 - 1) : Brought("Right", k) => ~DeadlySent
    /\ Brought("Right", WIDTH_BOXES \div 2) => DeadlySent
    /\ \A k \in 1..(HEIGHT_BOXES \div 2 - 1) : Brought("Up", k) => ~DeadlySent
    /\ Brought("Up", HEIGHT_BOXES \div 2) => DeadlySent

\* Witness of C8: the tick that brings the head to cell 5 on the right has
\* emitted Deadly.
BoundaryScenarioWitness == Brought("Right", WIDTH_BOXES \div 2) /\ DeadlySent

\* ------------------------------------------------------------ the codec
\* The directional intent of a batch of key events: the last arrow key
\* pressed, or no change.
RECURSIVE LastArrow(_)
LastArrow(ks) ==
    IF ks = <<>> THEN "NoChange"
    ELSE IF ks[Len(ks)] \in Directions THEN ks[Len(ks)]
    ELSE LastArrow(SubSeq(ks, 1, Len(ks) - 1))

Intent(keys) == LastArrow(PressedKeys(keys))

\* C9 (codec round trip): the byte input returns determines the intent it
\* encodes: two batches of key events with different intents get different
\* bytes.
CodecRoundTrip ==
    \A k1 \in KeySeqs, k2 \in KeySeqs :
        Intent(k1) # Intent(k2) => InputByte(world[1], k1) # InputByte(world[1], k2)

\* C10 (tick order): in every tick update_dir runs before move_snake,
\* move_snake before check_collisions, and check_collisions before add_segment
\* and game_over.
TickOrderStep ==
    /\ Runs(1, "move_snake") => "update_dir" \in stage[1].ran
    /\ Runs(1, "check_collisions") => "move_snake" \in stage[1].ran
    /\ Runs(1, "add_segment") => "check_collisions" \in stage[1].ran
    /\ Runs(1, "game_over") => "check_collisions" \in stage[1].ran

TickOrder == [][TickOrderStep]_vars

\* ------------------------------------------------------------ termination
\* The CollisionEvent buffers a run of check_collisions can leave.
EventBatches == SeqsUpTo({"Safe", "Deadly"}, 2)

HasDeadly(evs) == \E i \in 1..Len(evs) : evs[i] = "Deadly"

\* C11 (termination signal): once game_over has run in a tick, AppExit has
\* been sent if and only if check_collisions emitted a Deadly event in that
\* tick; before game_over runs and between ticks of a running match no AppExit
\* has been sent; and game_over sends AppExit on a buffer of events exactly
\* when the buffer holds a Deadly event, whether or not it also holds Safe.
TerminationSignal ==
    LET w == world[1]
    IN  /\ (stage[1].phase = "stage" /\ "game_over" \in stage[1].ran) =>
              (w.exit <=> DeadlySent)
        /\ (stage[1].phase = "stage" /\ "game_over" \notin stage[1].ran) => ~w.exit
        /\ stage[1].phase = "idle" => ~w.exit
        /\ stage[1].phase = "exited" => w.exit
        /\ ~w.exit =>
              \A evs \in EventBatches :
                  game_over([w EXCEPT !.events = evs, !.overRead = 0]).exit = HasDeadly(evs)

\* Witness of C11: the head has left the play-field, check_collisions emitted
\* Deadly and game_over, in the same tick, has sent AppExit.
TerminationSignalWitness ==
    /\ stage[1].phase = "stage"
    /\ "game_over" \in stage[1].ran
    /\ DeadlySent
    /\ world[1].exit

\* ------------------------------------------------------------ the food
\* C12 (single food): at most one Food exists in any reachable state.
SingleFood == Len(world[1].food) <= 1

\* ------------------------------------------------------------ the input system
\* C13 (pure input encoding): the step in which the input system samples the
\* key events of a frame leaves every segment's position and directions, the
\* snake's order and the food as they were.
PureInputStep ==
    (stage[1].phase = "idle" /\ stage'[1].phase = "stage") =>
        FrameState(world'[1]) = FrameState(world[1])

PureInput == [][PureInputStep]_vars

\* ------------------------------------------------------------ the snake's shape
\* The snake is non-empty, holds no entity twice, and its first entry is the
\* one entity that carries the Head marker.
WellShaped(w) ==
    /\ Len(w.snake) >= 1
    /\ \A i, j \in 1..Len(w.snake) : i # j => w.snake[i] # w.snake[j]
    /\ w.head = {w.snake[1]}
    /\ w.snake[1] \in DOMAIN w.seg

\* Every step keeps the entries of the snake in place, and only add_segment
\* lengthens it, at the end.
SnakeShapeStep ==
    LET w == world[1]
        v == world'[1]
    IN  /\ Len(v.snake) >= Len(w.snake)
        /\ SubSeq(v.snake, 1, Len(w.snake)) = w.snake
        /\ Len(v.snake) > Len(w.snake) => Runs(1, "add_segment")

\* C14 (snake shape, I1): in every reachable state the snake is non-empty,
\* holds no entity twice and its index 0 is the one entity carrying the Head
\* marker; no step removes or reorders entries and only add_segment appends.
SnakeShape == [](WellShaped(world[1]) /\ ~world[1].panic) /\ [][SnakeShapeStep]_vars

\* Witness of C14: the snake has grown twice and a third tick has started.
SnakeShapeWitness ==
    /\ Len(world[1].snake) = 3
    /\ stage[1].frame = 2
    /\ "move_snake" \in stage[1].ran

\* ------------------------------------------------------------ the exact play-field
InField(cx, cy) == cx \in FieldCellsX /\ cy \in FieldCellsY

\* C15 (exact play-field): once check_collisions has run in the tick of a
\* single-segment snake, a Deadly event has been emitted if and only if the
\* cell the head moved to lies outside the WIDTH_BOXES x HEIGHT_BOXES grid. The
\* heads of InitField move to every cell of the grid and past each of its
\* four sides.
ExactField ==
    LET w == world[1]
        h == w.seg[HeadEntity]
    IN  (stage[1].phase = "stage" /\ "check_collisions" \in stage[1].ran
                                  /\ Len(w.snake) = 1) =>
            (DeadlySent <=> ~InField(Cell(h.x), Cell(h.y)))

\* Witness of C15: the head stood in the leftmost column and moved Left past
\* it, and the tick has emitted Deadly.
ExactFieldWitness ==
    LET h == world[1].seg[HeadEntity]
    IN  /\ stage[1].phase = "stage"
        /\ "check_collisions" \in stage[1].ran
        /\ h.curr_dir = "Left"
        /\ Cell(h.x) = 0 - WIDTH_BOXES \div 2 - 1
        /\ DeadlySent

\* ------------------------------------------------------------ coiled snakes
\* A snake of up to CoilLen segments as a match without Deadly events leaves
\* it between two ticks, one tick before MaxTick: the body lies along the
\* path the head took (segment i stands one cell behind segment i-1, against
\* the direction segment i-1 moved in, and its next_dir is that direction),
\* the path never reverses, never crosses itself and stays in the play-field,
\* and the head has any next_dir that is not a reversal.
RECURSIVE CoilPos(_, _, _)
CoilPos(a, ds, i) ==
    IF i = 1 THEN At(a[1], a[2])
    ELSE LET p == CoilPos(a, ds, i - 1)
         IN  [x |-> p.x - DirX(ds[i - 1]) * BOX_SIZE,
              y |-> p.y - DirY(ds[i - 1]) * BOX_SIZE]

Coil(a, ds, nd) ==
    [setup EXCEPT
        !.snake = [i \in 1..Len(ds) |-> i],
        !.seg = [i \in 1..Len(ds) |->
                    [x |-> CoilPos(a, ds, i).x, y |-> CoilPos(a, ds, i).y,
                     curr_dir |-> ds[i],
                     next_dir |-> IF i = 1 THEN nd ELSE ds[i - 1]]]]

\* The cells the head of a coiled snake starts on: the setup cell and the
\* top-right corner of the play-field.
CoilAnchors == {<<0, 0>>, <<WIDTH_BOXES \div 2 - 1, HEIGHT_BOXES \div 2 - 1>>}

InitCoil ==
    /\ \E n \in 1..CoilLen :
          \E a \in CoilAnchors, ds \in [1..n -> Directions], nd \in Directions :
              /\ nd # Opposite(ds[1])
              /\ \A i \in 2..n : ds[i - 1] # Opposite(ds[i])
              /\ \A i, j \in 1..n : i # j => CoilPos(a, ds, i) # CoilPos(a, ds, j)
              /\ \A i \in 1..n :
                    InField(Cell(CoilPos(a, ds, i).x), Cell(CoilPos(a, ds, i).y))
              /\ world = [p \in Copies |-> Coil(a, ds, nd)]
    /\ stage = [p \in Copies |-> [StageInit EXCEPT !.frame = MaxTick - 1]]
    /\ session = SessionInit

SpecCoil == InitCoil /\ [][Next]_vars

\* ------------------------------------------------------------ self-collision
DeadlyCount(w) == Len(SelectSeq(w.events, LAMBDA ev : ev = "Deadly"))

\* The Deadly events of the running tick beyond the one of the boundary test.
SelfDeadly(w) ==
    DeadlyCount(w) - (IF OutOfBounds(w.seg[w.snake[1]]) THEN 1 ELSE 0)

\* C16 (self-collision): once check_collisions has run in a tick, it has
\* emitted a self-collision Deadly event if and only if some non-head segment
\* stands, after the move, where the head stands; a single-segment snake gets
\* none.
SelfCollision ==
    LET w == world[1]
        h == w.seg[w.snake[1]]
    IN  (stage[1].phase = "stage" /\ "check_collisions" \in stage[1].ran) =>
            /\ SelfDeadly(w) > 0 <=>
                   \E e \in DOMAIN w.seg : e # w.snake[1] /\ Pos(w.seg[e]) = Pos(h)
            /\ Len(w.snake) = 1 => SelfDeadly(w) = 0

\* Witness of C16: the head of a five-segment snake has turned into the cell
\* its fifth segment moved to, and the tick has emitted Deadly.
SelfCollisionWitness ==
    LET w == world[1]
    IN  /\ stage[1].phase = "stage"
        /\ "check_collisions" \in stage[1].ran
        /\ Len(w.snake) = 5
        /\ Pos(w.seg[w.snake[5]]) = Pos(w.seg[w.snake[1]])
        /\ DeadlySent

\* ------------------------------------------------------------ eating
\* The Food entities at the position of the head.
Landed(w) == {i \in 1..Len(w.food) : Pos(w.food[i]) = Pos(w.seg[w.snake[1]])}

\* The step that ends a tick; until then the segments spawned are those the
\* snake had when the tick began, and the Food eaten is still spawned.
EatingStep ==
    LET w == world[1]
        v == world'[1]
        before == Cardinality(DOMAIN w.seg)
    IN  (stage[1].phase = "stage" /\ stage'[1].phase # "stage") =>
            /\ Landed(w) # {} =>
                   /\ Cardinality(Landed(w)) = 1
                   /\ v.food = SelectSeq(w.food, LAMBDA f : Pos(f) # Pos(w.seg[w.snake[1]]))
                   /\ Len(v.food) = Len(w.food) - 1
                   /\ Len(v.snake) = before + 1
            /\ Landed(w) = {} =>
                   /\ v.food = w.food
                   /\ Len(v.snake) = before
            /\ Cardinality(DOMAIN v.seg) = Len(v.snake)
            /\ v.events = <<>>

\* C17 (eating): a tick in which the head moves onto a Food removes exactly
\* that Food and lengthens the snake by exactly one segment; a tick in which
\* the head lands on no Food removes none and leaves the length; no event of
\* the tick is left for a later one.
Eating == [][EatingStep]_vars

\* Witness of C17: the five systems of a tick have run, the head of a
\* two-segment snake stands on a Food and the third segment is appended.
EatingWitness ==
    LET w == world[1]
    IN  /\ stage[1].phase = "stage"
        /\ stage[1].ran = Systems
        /\ Landed(w) # {}
        /\ Cardinality(DOMAIN w.seg) = 2
        /\ Len(w.snake) = 3

\* ------------------------------------------------------------ a crowded field
\* The cells of the play-field in the order of a path that sweeps it row by
\* row from the bottom-left corner, alternating Right and Left.
SweepCell(k) ==
    LET m == k - 1
        row == m \div WIDTH_BOXES
        col == IF row % 2 = 0 THEN (m % WIDTH_BOXES) ELSE WIDTH_BOXES - 1 - (m % WIDTH_BOXES)
    IN  At(col - WIDTH_BOXES \div 2, row - HEIGHT_BOXES \div 2)

\* The direction in which the path enters its k-th cell.
SweepDir(k) ==
    LET m == k - 1
    IN  IF m > 0 /\ m % WIDTH_BOXES = 0 THEN "Up"
        ELSE IF (m \div WIDTH_BOXES) % 2 = 0 THEN "Right" ELSE "Left"

\* A snake of n segments that has swept the first n cells of the path, and
\* Food on the cells of the path numbered in fs.
Crowded(n, fs) ==
    [setup EXCEPT
        !.snake = [i \in 1..n |-> i],
        !.seg = [i \in 1..n |->
                    [x |-> SweepCell(n + 1 - i).x, y |-> SweepCell(n + 1 - i).y,
                     curr_dir |-> SweepDir(n + 1 - i),
                     next_dir |-> IF i = 1 THEN SweepDir(n) ELSE SweepDir(n + 2 - i)]],
        !.food = [j \in 1..Cardinality(fs) |->
                     LET k == CHOOSE c \in fs : Cardinality({b \in fs : b < c}) = j - 1
                     IN  [e |-> n + j, x |-> SweepCell(k).x, y |-> SweepCell(k).y]]]

InitCrowded ==
    /\ \E r \in 1..FreeCells :
          LET n == WIDTH_BOXES * HEIGHT_BOXES - r
          IN  \E fs \in SUBSET ((n + 1)..(WIDTH_BOXES * HEIGHT_BOXES)) :
                  world = [p \in Copies |-> Crowded(n, fs)]
    /\ stage = [p \in Copies |-> StageInit]
    /\ session = SessionInit

\* SpawnFoodStage: a run of spawn_food, whatever cell its loop ends on.
SpawnFoodAnywhere(p) ==
    /\ stage[p].phase = "idle"
    /\ ~stage[p].fed
    /\ stage[p].spawns < MaxFood
    /\ \E d \in EndingDraws(world[p]) :
          world' = [world EXCEPT ![p] = spawn_food(@, d[1], d[2])]
    /\ stage' = [stage EXCEPT ![p].fed = TRUE, ![p].spawns = @ + 1]
    /\ UNCHANGED session

NextCrowded == SpawnFoodAnywhere(1)

SpecCrowded == InitCrowded /\ [][NextCrowded]_vars

\* The cells of the play-field on which no segment and no Food stands.
FreeCellsOf(w) ==
    {d \in DrawX \X DrawY :
        /\ \A e \in DOMAIN w.seg : Pos(w.seg[e]) # [x |-> d[1], y |-> d[2]]
        /\ \A i \in 1..Len(w.food) : Pos(w.food[i]) # [x |-> d[1], y |-> d[2]]}

\* A run of spawn_food: with a free cell it adds exactly one Food, on a cell
\* that was free; without one it adds nothing.
FoodSpawnerStep ==
    LET w == world[1]
        v == world'[1]
    IN  stage'[1].spawns = stage[1].spawns + 1 =>
            /\ v.seg = w.seg /\ v.snake = w.snake
            /\ FreeCellsOf(w) # {} =>
                   /\ Len(v.food) = Len(w.food) + 1
                   /\ SubSeq(v.food, 1, Len(w.food)) = w.food
                   /\ <<v.food[Len(v.food)].x, v.food[Len(v.food)].y>> \in FreeCellsOf(w)
            /\ FreeCellsOf(w) = {} => v.food = w.food

\* C18 (food spawner): every run of spawn_food that finds a free cell of the
\* play-field creates exactly one Food, on a cell with no segment and no other
\* Food, and a run creates nothing only when no cell is free.
FoodSpawner == [][FoodSpawnerStep]_vars

\* ------------------------------------------------------------ growth per tick
SafeCount(w) == Len(SelectSeq(w.events, LAMBDA ev : ev = "Safe"))

\* C19 (at most one growth per tick): in every reachable state no two Food
\* entities share a position, the running tick has emitted at most one Safe
\* event, the snake holds at most one entity that is not yet spawned, and no
\* unwrap() has failed on a segment that is not yet spawned.
OneGrowthPerTick ==
    LET w == world[1]
    IN  /\ \A i, j \in 1..Len(w.food) : i # j => Pos(w.food[i]) # Pos(w.food[j])
        /\ SafeCount(w) <= 1
        /\ Len(w.snake) <= Cardinality(DOMAIN w.seg) + 1
        /\ Cardinality(SeqRange(w.snake) \ DOMAIN w.seg) <= 1
        /\ ~w.panic

\* Witness of C19: two Foods are on the field, the head has moved onto one of
\* them and add_segment has appended the one segment of the tick.
OneGrowthPerTickWitness ==
    LET w == world[1]
    IN  /\ stage[1].phase = "stage"
        /\ "add_segment" \in stage[1].ran
        /\ Len(w.food) = 2
        /\ SafeCount(w) = 1
        /\ Len(w.snake) = Cardinality(DOMAIN w.seg) + 1

\* ------------------------------------------------------------ body integrity
\* The positions of the spawned segments and of the segments whose spawn is
\* queued, in the snake's order.
Placed(w) ==
    [i \in 1..Len(w.snake) |->
        IF w.snake[i] \in DOMAIN w.seg THEN Pos(w.seg[w.snake[i]])
        ELSE LET c == CHOOSE k \in 1..Len(w.cmds) :
                          w.cmds[k].op = "spawn" /\ w.cmds[k].e = w.snake[i]
             IN  Pos(w.cmds[c].seg)]

Intact(w) ==
    /\ \A i, j \in 1..Len(w.snake) : i # j => Placed(w)[i] # Placed(w)[j]
    /\ \A i \in 1..Len(w.snake) : InField(Cell(Placed(w)[i].x), Cell(Placed(w)[i].y))

\* C20 (body integrity): between ticks of a match in which no tick emitted
\* Deadly, and within a tick once check_collisions has run without emitting
\* Deadly, all segments of the snake, a segment appended in the tick
\* included, stand on pairwise distinct cells of the play-field.
BodyIntegrity ==
    LET w == world[1]
    IN  /\ (stage[1].phase = "idle" /\ ~w.exit) => Intact(w)
        /\ (stage[1].phase = "stage" /\ "check_collisions" \in stage[1].ran
                                     /\ ~DeadlySent) => Intact(w)

\* Witness of C20: a snake of CoilLen segments whose head stood in the
\* top-right corner has eaten in a tick without Deadly and has one more
\* segment, all in the rightmost two columns.
BodyIntegrityWitness ==
    LET w == world[1]
    IN  /\ stage[1].phase = "idle"
        /\ stage[1].frame = MaxTick
        /\ ~w.exit
        /\ Len(w.snake) = CoilLen + 1
        /\ \A i \in 1..Len(w.snake) :
              /\ w.snake[i] \in DOMAIN w.seg
              /\ Cell(w.seg[w.snake[i]].x) >= WIDTH_BOXES \div 2 - 2

====
